---- MODULE Spec2Model ----
(***************************************************************************)
(* Model of the per-entity reconcilers of the OpenCTI Terraform provider   *)
(* (internal/provider/*_resource.go).  One resource instance of one        *)
(* resource type is driven through Create / Read / Update / Delete by the  *)
(* orchestrator; the remote system is the entity store reached through    *)
(* the gocti client.  A string is a sequence of byte values, so that       *)
(* sort.Strings, strings.Trim and the %q form of a value are computed.     *)
(***************************************************************************)
EXTENDS Integers, Sequences, FiniteSets, TLC

(* ------------------------------ bounds -------------------------------- *)

\* longest desired relation list of a plan
MaxLen == 2

\* longest desired roles or allowed_marking list of a group plan
MaxGroupLen == 1

\* largest identifier the remote system issues
MaxId == 3

\* the latest call of an operation that the remote system may fail
MaxFault == 4

\* the latest reading of the clock
MaxTime == 3

\* the longest name matched character by character
MaxNameLen == 2

(* ------------------------------ strings ------------------------------- *)

\* byte values of the characters used in names
QUOTE == 34

BACKSLASH == 92

EXPLORE == <<69>>

KNOWLEDGE == <<75, 78>>

SETTINGS == <<83>>

Names == {EXPLORE, KNOWLEDGE, SETTINGS}

\* the marking definitions a group plan names
MarkNames == {KNOWLEDGE, SETTINGS}

\* scalar "name" attribute values of a plan
ResNames == {"n1", "n2"}

RECURSIVE StrLess(_, _)
\* Go's < on strings: bytewise lexicographic order
StrLess(a, b) ==
    IF b = <<>> THEN FALSE
    ELSE IF a = <<>> THEN TRUE
    ELSE IF Head(a) < Head(b) THEN TRUE
    ELSE IF Head(a) > Head(b) THEN FALSE
    ELSE StrLess(Tail(a), Tail(b))

RECURSIVE InsertSorted(_, _)
InsertSorted(x, s) ==
    IF s = <<>> THEN <<x>>
    ELSE IF StrLess(x, Head(s)) THEN <<x>> \o s
    ELSE <<Head(s)>> \o InsertSorted(x, Tail(s))

RECURSIVE SortedOf(_)
SortedOf(s) == IF s = <<>> THEN <<>> ELSE InsertSorted(Head(s), SortedOf(Tail(s)))

\* a plausible slip: the list is written as collected
NoSort(s) == s

\* sort.Strings
SortStrings(s) == SortedOf(s)

RECURSIVE EscapeQ(_)
\* the body of the %q form: a double quote and a backslash get a backslash
EscapeQ(s) ==
    IF s = <<>> THEN <<>>
    ELSE IF Head(s) = QUOTE \/ Head(s) = BACKSLASH
         THEN <<BACKSLASH, Head(s)>> \o EscapeQ(Tail(s))
         ELSE <<Head(s)>> \o EscapeQ(Tail(s))

\* attr.Value.String() of a types.String: the quoted form of the value
ValueString(s) == <<QUOTE>> \o EscapeQ(s) \o <<QUOTE>>

RECURSIVE TrimLeft(_)
TrimLeft(s) == IF s # <<>> /\ Head(s) = QUOTE THEN TrimLeft(Tail(s)) ELSE s

RECURSIVE TrimRight(_)
TrimRight(s) ==
    IF s # <<>> /\ s[Len(s)] = QUOTE THEN TrimRight(SubSeq(s, 1, Len(s) - 1)) ELSE s

\* strings.Trim(x, "\"")
TrimQuotes(s) == TrimRight(TrimLeft(s))

\* the name Create compares with a remote name: strings.Trim(v.String(), "\"")
ElementName(s) == TrimQuotes(ValueString(s))

Contains(s, x) == \E i \in 1..Len(s) : s[i] = x

SeqsUpTo(S, n) == UNION {[1..k -> S] : k \in 0..n}

Range(s) == {s[i] : i \in 1..Len(s)}

(* --------------------------- remote system ---------------------------- *)

\* the eight resource types registered by the provider
Kinds ==
    {"role", "group", "user", "marking_definition", "vocabulary",
     "task_template", "case_template", "status_template"}

\* relational attributes of each resource model
RelsOf(k) ==
    CASE k = "role" -> {"capabilities"}
      [] k = "group" -> {"roles", "allowed_marking"}
      [] k = "user" -> {"groups"}
      [] k = "case_template" -> {"tasks"}
      [] k = "status_template" -> {"workflows"}
      [] OTHER -> {}

\* a related remote entity, as a listing or an edge returns it
Entity(i, n) == [id |-> i, name |-> n]

\* remote listings of a related entity type (ListRoles, ListGroups,
\* ListMarkingDefinitions, the capabilities behind IDsByNames)
ListingA == <<Entity(1, EXPLORE), Entity(2, KNOWLEDGE), Entity(3, SETTINGS)>>

\* two remote entities carry the same name
ListingB == <<Entity(1, KNOWLEDGE), Entity(2, EXPLORE), Entity(3, KNOWLEDGE)>>

\* SETTINGS names no remote entity
ListingC == <<Entity(1, KNOWLEDGE), Entity(2, EXPLORE)>>

\* the listings a related entity type is checked with
ListingsOf(r) ==
    CASE r = "capabilities" -> <<ListingA, ListingC>>
      [] r = "allowed_marking" -> <<ListingC>>
      [] OTHER -> <<ListingA, ListingB>>

\* the task templates a case template can refer to (by id)
TaskIds == {1, 2}

\* the workflow positions a status template can be set in
Workflows == {[entity |-> "Case-Incident", order |-> 1], [entity |-> "Report", order |-> 2]}

\* a status of a workflow that uses the status template: every call that
\* sets the status in a workflow adds one
Usage(w, n) == [wf |-> w, inst |-> n]

\* the things a relation of the remote entity can hold
Targets(r, lst) ==
    CASE r = "tasks" -> TaskIds
      [] r = "workflows" -> {Usage(w, n) : w \in Workflows, n \in 1..MaxLen}
      [] OTHER -> {lst[i].id : i \in 1..Len(lst)}

\* desired values of a relational attribute in a plan; a group plan names at
\* most one marking: the loops over markings are the loops over roles again,
\* and lists of several names are examined with the roles
DesiredOf(r) ==
    CASE r = "tasks" -> SUBSET TaskIds
      [] r = "workflows" -> SeqsUpTo(Workflows, MaxLen)
      [] r = "roles" -> SeqsUpTo(Names, MaxGroupLen)
      [] r = "allowed_marking" -> {<<>>} \cup {<<n>> : n \in MarkNames}
      [] OTHER -> SeqsUpTo(Names, MaxLen)

\* the empty value of a relational attribute
EmptyOf(r) == IF r = "tasks" THEN {} ELSE <<>>

\* one remote call of the client, as recorded in the order issued
Call(c, r, i) == [call |-> c, rel |-> r, id |-> i]

Reverse(s) == [i \in 1..Len(s) |-> s[Len(s) + 1 - i]]

\* the edges the remote system returns for a set of assigned entities
EdgesOf(ids, lst, desc) ==
    LET asc == SelectSeq(lst, LAMBDA e : e.id \in ids)
    IN IF desc THEN Reverse(asc) ELSE asc

NamesOfEdges(edges) == [i \in 1..Len(edges) |-> edges[i].name]

\* index of the first listed entity with this name, 0 when none
FirstMatch(lst, n) ==
    IF \E i \in 1..Len(lst) : lst[i].name = n
    THEN CHOOSE i \in 1..Len(lst) :
            lst[i].name = n /\ \A j \in 1..(i - 1) : lst[j].name # n
    ELSE 0

RECURSIVE ApplyCalls(_, _, _)
\* effect of the assign and unassign calls of relation r on the remote set
ApplyCalls(ids, calls, r) ==
    IF calls = <<>> THEN ids
    ELSE LET c == Head(calls)
             next == IF c.rel # r THEN ids
                     ELSE IF c.call = "assign" THEN ids \cup {c.id}
                     ELSE IF c.call = "setWorkflow"
                          THEN ids \cup {Usage(c.id,
                                    1 + Cardinality({u \in ids : u.wf = c.id}))}
                     ELSE IF c.call = "unassign" THEN ids \ {c.id}
                     ELSE ids
         IN ApplyCalls(next, Tail(calls), r)

(* ----------------------- reconciliation loops -------------------------- *)

\* a plausible slip: the names to drop are left out of the list but no
\* unassign call is issued for them
RemoveLoopNoCall(edges, plan, r) ==
    [calls |-> <<>>,
     of |-> SelectSeq([i \in 1..Len(edges) |-> edges[i].name],
                      LAMBDA n : Contains(plan, n))]

RECURSIVE RemoveLoop(_, _, _)
\* "Remove roles / markings / groups / capabilities": every edge whose name
\* the plan does not contain is unassigned by id, the others are retained
RemoveLoop(edges, plan, r) ==
    IF edges = <<>> THEN [calls |-> <<>>, of |-> <<>>]
    ELSE LET e == Head(edges)
             rest == RemoveLoop(Tail(edges), plan, r)
         IN IF ~Contains(plan, e.name)
            THEN [calls |-> <<Call("unassign", r, e.id)>> \o rest.calls, of |-> rest.of]
            ELSE [calls |-> rest.calls, of |-> <<e.name>> \o rest.of]

\* a plausible slip: a planned name not yet held is appended whether or not
\* the listing has an entity of that name
AddLoopKeepAll(plan, of, lst, r) ==
    LET want == SelectSeq(plan, LAMBDA n : ~Contains(of, n))
        hits == SelectSeq(want, LAMBDA n : FirstMatch(lst, n) # 0)
    IN [calls |-> [i \in 1..Len(hits) |->
                     Call("assign", r, lst[FirstMatch(lst, hits[i])].id)],
        of |-> of \o want]

RECURSIVE AddLoop(_, _, _, _)
\* "Add roles / markings / groups" of group and user Update: a planned name
\* not yet held is looked up in the listing by exact name, the first match is
\* assigned and its name appended; an unmatched name is passed over
AddLoop(plan, of, lst, r) ==
    IF plan = <<>> THEN [calls |-> <<>>, of |-> of]
    ELSE LET m == FirstMatch(lst, Head(plan))
         IN IF ~Contains(of, Head(plan)) /\ m # 0
            THEN LET rest == AddLoop(Tail(plan), of \o <<lst[m].name>>, lst, r)
                 IN [calls |-> <<Call("assign", r, lst[m].id)>> \o rest.calls,
                     of |-> rest.of]
            ELSE AddLoop(Tail(plan), of, lst, r)

RECURSIVE CreateLoop(_, _, _)
\* "Assign the roles / markings / groups" of group and user Create: every
\* element of the plan is matched by its trimmed quoted form
CreateLoop(plan, lst, r) ==
    IF plan = <<>> THEN [calls |-> <<>>, of |-> <<>>]
    ELSE LET m == FirstMatch(lst, ElementName(Head(plan)))
             rest == CreateLoop(Tail(plan), lst, r)
         IN IF m # 0
            THEN [calls |-> <<Call("assign", r, lst[m].id)>> \o rest.calls,
                  of |-> <<lst[m].name>> \o rest.of]
            ELSE rest

\* a plausible slip: the listing is fetched before the removals
ReconcileListFirst(edges, plan, lst, r) ==
    LET rm == RemoveLoop(edges, plan, r)
        ad == AddLoop(plan, rm.of, lst, r)
    IN [calls |-> <<Call("list", r, 0)>> \o rm.calls \o ad.calls,
        list |-> SortStrings(ad.of)]

\* the relation list and calls of one relation of group / user Update
Reconcile(edges, plan, lst, r) ==
    LET rm == RemoveLoop(edges, plan, r)
        ad == AddLoop(plan, rm.of, lst, r)
    IN [calls |-> rm.calls \o <<Call("list", r, 0)>> \o ad.calls,
        list |-> SortStrings(ad.of)]

\* the orders in which the capability lookup may return the ids
IdsOrders == {"names", "listing"}

RECURSIVE IdsInNamesOrder(_, _)
IdsInNamesOrder(names, lst) ==
    IF names = <<>> THEN <<>>
    ELSE LET m == FirstMatch(lst, Head(names))
         IN (IF m # 0 THEN <<lst[m].id>> ELSE <<>>) \o IdsInNamesOrder(Tail(names), lst)

\* system.Capability{}.IDsByNames: the ids of the listed capabilities that
\* bear one of the names; a name that no capability bears yields no id
IDsByNames(names, lst, order) ==
    IF order = "names" THEN IdsInNamesOrder(names, lst)
    ELSE LET hit == SelectSeq(lst, LAMBDA e : Contains(names, e.name))
         IN [i \in 1..Len(hit) |-> hit[i].id]

RECURSIVE RoleAddLoop(_, _, _, _)
\* "Add capabilities" of role Update: the i-th planned name, when not yet
\* held, is assigned with capabilitiesIDs[i]; an index past the end of the
\* ids is a run-time panic that ends the handler
RoleAddLoop(plan, i, of, ids) ==
    IF i > Len(plan) THEN [calls |-> <<>>, of |-> of, panic |-> FALSE]
    ELSE IF Contains(of, plan[i]) THEN RoleAddLoop(plan, i + 1, of, ids)
    ELSE IF i > Len(ids) THEN [calls |-> <<>>, of |-> of, panic |-> TRUE]
    ELSE LET rest == RoleAddLoop(plan, i + 1, of \o <<plan[i]>>, ids)
         IN [calls |-> <<Call("assign", "capabilities", ids[i])>> \o rest.calls,
             of |-> rest.of, panic |-> rest.panic]

(* ------------------------------- state --------------------------------- *)

VARIABLES
    kind,       \* the resource type of the resource instance
    idsOrder,   \* the order in which the capability lookup returns ids
    edgeDesc,   \* whether the remote system returns edges by descending id
    listing,    \* the remote listing of each related entity type
    remote,     \* remote entities of the resource type: id -> name, relations
    nextId,     \* the next identifier the remote system issues
    state,      \* the Terraform state of the resource instance
    createdId,  \* the id Create stored in state
    planNames,  \* the values the configuration gives the name attribute
    planRels,   \* the relation plans of the configuration: "any" or "few"
    fault,      \* the remote system will fail, once, the fault-th call of the
                \* first operation that issues as many calls; 0 when it will not
    updates,    \* successful re-creating Updates since Create
    destroyed,  \* whether Delete removed the resource instance
    provider,   \* the provider: configuration, environment, Configure outcome
    last,       \* the last operation: its inputs, calls and outcome
    now,        \* the reading of the clock, in seconds
    lastUpdated, \* the last_updated attribute of the state, 0 when null
    resources,  \* the resource instances of the provider: their client field
    procs,      \* user Create operations that run side by side
    probe       \* a desired name and a listing, and the calls that Create and
                \* Update issue for them

vars ==
    <<kind, idsOrder, edgeDesc, listing, remote, nextId, state, createdId, planNames,
      planRels, fault, updates, destroyed, provider, last, now, lastUpdated, resources,
      procs, probe>>

EmptyRels(k) == [r \in RelsOf(k) |-> EmptyOf(r)]

NoAssoc(k) == [r \in RelsOf(k) |-> {}]

\* the user_email of every plan
PlannedEmail == "planned"

\* the user_email of a user that exists before the provider runs
ExistingEmail == "existing"

\* the color of every status template plan
PlannedColor == "planned"

\* no resource recorded (the zero id); the state of a user has the email
\* besides, that of a status template the color
NullState(k) ==
    IF k = "user" THEN [id |-> 0, name |-> "", rels |-> EmptyRels(k), email |-> ""]
    ELSE IF k = "status_template"
    THEN [id |-> 0, name |-> "", rels |-> EmptyRels(k), color |-> ""]
    ELSE [id |-> 0, name |-> "", rels |-> EmptyRels(k)]

\* what is left of a remote entity that was deleted
Tombstone(k) ==
    IF k = "user" THEN [name |-> "", rels |-> NoAssoc(k), email |-> ""]
    ELSE IF k = "status_template"
    THEN [name |-> "", rels |-> NoAssoc(k), color |-> ""]
    ELSE [name |-> "", rels |-> NoAssoc(k)]

\* the remote entity with id i; an id never issued has no entity either
Remote(i) == IF i \in 1..Len(remote) THEN remote[i] ELSE Tombstone(kind)

Exists(i) == Remote(i).name # ""

\* the index of the call that returns an error, 0 when every call succeeds:
\* a read or delete of an entity that does not exist, or the call the remote
\* system fails
FailsAt(calls) ==
    IF calls # <<>> /\ calls[1].call \in {"read", "delete"} /\ ~Exists(calls[1].id)
    THEN 1
    ELSE IF fault # 0 /\ fault <= Len(calls) THEN fault ELSE 0

Failed(calls) == FailsAt(calls) # 0

\* a plausible slip: the handler records the error and carries on
IssuedAll(calls) == calls

\* the calls a handler issues of the calls it would issue were all to
\* succeed: AddError and return follow the call that failed
Issued(calls) ==
    IF FailsAt(calls) = 0 THEN calls ELSE SubSeq(calls, 1, FailsAt(calls))

\* a plausible slip: a failure undoes the calls that went before it
EffectiveNone(calls) == IF FailsAt(calls) = 0 THEN calls ELSE <<>>

\* the calls of a handler that took effect remotely
Effective(calls) ==
    IF FailsAt(calls) = 0 THEN calls ELSE SubSeq(calls, 1, FailsAt(calls) - 1)

\* the failure the remote system still has in store after an operation: the
\* failure happens once
FaultAfter(calls) ==
    IF fault # 0 /\ FailsAt(calls) = fault THEN 0 ELSE fault

\* the record of an operation, from the calls it would issue were all to
\* succeed and the result it has then; of an operation that failed, the
\* state before it is on record
Op(o, res, d, pa, pr, c, rep, aft) ==
    [op |-> o, result |-> IF Failed(c) THEN "error" ELSE res, desired |-> d.rels,
     name |-> d.name,
     priorAssoc |-> pa, prior |-> IF Failed(c) THEN state ELSE pr,
     calls |-> Issued(c), failed |-> FailsAt(c), repeat |-> rep, after |-> aft]

\* the prior state a Read is recorded with: the state Create wrote, or the
\* state a status template Read decides on
PriorOf(st) ==
    IF last.op = "Create" \/ kind = "status_template" THEN st ELSE NullState(kind)

\* the operation (Create, Update or ImportState) that a Read follows at
\* once, "" when none
AfterOf ==
    IF last.op \in {"Create", "Update", "Import"} /\ last.result = "ok"
    THEN last.op ELSE ""

\* the configuration of the apply that a Read follows at once
ConfigOf == IF AfterOf # "" THEN last.desired ELSE EmptyRels(kind)

\* the request of a Read: the relations configured, no planned name
ReadPlan == [name |-> "", rels |-> ConfigOf]

\* the request of a Delete: no plan
NoPlan(k) == [name |-> "", rels |-> EmptyRels(k)]

NoOp(k, o) ==
    [op |-> o, result |-> "ok", desired |-> EmptyRels(k), name |-> "",
     priorAssoc |-> NoAssoc(k),
     prior |-> NullState(k), calls |-> <<>>, failed |-> 0, repeat |-> FALSE,
     after |-> ""]

\* the values a plan can give the relational attributes
RelPlans(k) ==
    CASE k = "role" -> [capabilities : DesiredOf("capabilities")]
      [] k = "group" -> [roles : DesiredOf("roles"),
                         allowed_marking : DesiredOf("allowed_marking")]
      [] k = "user" -> [groups : DesiredOf("groups")]
      [] k = "case_template" -> [tasks : DesiredOf("tasks")]
      [] k = "status_template" -> [workflows : DesiredOf("workflows")]
      [] OTHER -> {<<>>}

\* the relation plans under which a failing call is examined
FaultPlans(k) ==
    LET some == {<<>>, <<EXPLORE>>, <<KNOWLEDGE>>, <<EXPLORE, KNOWLEDGE>>}
        one == {<<>>, <<EXPLORE>>, <<KNOWLEDGE>>}
    IN CASE k = "role" -> [capabilities : some]
         [] k = "group" -> [roles : one, allowed_marking : {<<>>, <<KNOWLEDGE>>}]
         [] k = "user" -> [groups : some]
         [] k = "status_template" ->
                LET w == [entity |-> "Report", order |-> 2]
                IN [workflows : {<<>>, <<w>>, <<w, w>>}]
         [] OTHER -> RelPlans(k)

\* the plans the orchestrator can hand to Create or Update
Plans(k) ==
    [name : planNames,
     rels : IF planRels = "any" THEN RelPlans(k) ELSE FaultPlans(k)]

\* a user that exists remotely before the provider runs
ExistingUser ==
    [name |-> "n1", rels |-> [r \in {"groups"} |-> {1}], email |-> ExistingEmail]

(* ------------------------------ provider ------------------------------- *)

\* the values of a string attribute of the provider configuration:
\* unknown, null, the empty string and a non-empty string
ConfigValues ==
    {[unknown |-> TRUE, null |-> FALSE, value |-> ""],
     [unknown |-> FALSE, null |-> TRUE, value |-> ""],
     [unknown |-> FALSE, null |-> FALSE, value |-> ""],
     [unknown |-> FALSE, null |-> FALSE, value |-> "cfg"]}

\* the values of an environment variable: unset or empty, and set
EnvValues == {"", "env"}

\* a provider before Configure ran
Unconfigured(cu, ct, eu, et, h) ==
    [config |-> [url |-> cu, token |-> ct],
     env |-> [OPENCTI_URL |-> eu, OPENCTI_TOKEN |-> et],
     healthy |-> h, done |-> FALSE, diags |-> <<>>,
     constructed |-> FALSE, url |-> "", token |-> "", calls |-> <<>>,
     client |-> FALSE]

\* a plausible slip: the environment variable wins when it is set
ResolveEnvFirst(c, e) == IF e # "" THEN e ELSE c.value

\* "if !config.URL.IsNull() { url = config.URL.ValueString() }" after
\* "url := os.Getenv(...)"
Resolve(c, e) == IF ~c.null THEN c.value ELSE e

\* the attribute errors for unknown configuration values
UnknownDiags(config) ==
    (IF config.url.unknown THEN <<"Unknown opencti URL">> ELSE <<>>)
    \o (IF config.token.unknown THEN <<"Unknown opencti token">> ELSE <<>>)

\* a plausible slip: only the URL is checked for being empty
MissingUrlOnly(url, token) ==
    IF url = "" THEN <<"Missing opencti URL">> ELSE <<>>

\* the attribute errors for missing resolved values
MissingDiags(url, token) ==
    (IF url = "" THEN <<"Missing opencti URL">> ELSE <<>>)
    \o (IF token = "" THEN <<"Missing opencti token">> ELSE <<>>)

\* the provider after openctiProvider.Configure
Configured(p) ==
    LET unknown == UnknownDiags(p.config)
        url == Resolve(p.config.url, p.env.OPENCTI_URL)
        token == Resolve(p.config.token, p.env.OPENCTI_TOKEN)
        missing == MissingDiags(url, token)
    IN IF unknown # <<>> THEN [p EXCEPT !.done = TRUE, !.diags = unknown]
       ELSE IF missing # <<>>
            THEN [p EXCEPT !.done = TRUE, !.url = url, !.token = token,
                           !.diags = missing]
       ELSE [p EXCEPT !.done = TRUE, !.constructed = TRUE,
                      !.url = url, !.token = token,
                      !.calls = <<"healthCheck">>,
                      !.diags = IF p.healthy THEN <<>>
                                ELSE <<"Unable to Create opencti API Client">>,
                      !.client = p.healthy]

\* the provider the resource handlers run with: configured from the
\* configuration alone, the remote system healthy
ReadyProvider ==
    Configured(Unconfigured([unknown |-> FALSE, null |-> FALSE, value |-> "cfg"],
                            [unknown |-> FALSE, null |-> FALSE, value |-> "cfg"],
                            "", "", TRUE))

\* the resource instances whose operations may run side by side
Instances == {"r1", "r2"}

\* what a resource Configure can be handed as provider data: nothing, the
\* client handle the provider published, or a value of another type
ResourceData == {"nil", "client", "other"}

\* a resource instance as its constructor returns it: the client field unset
NewResource == [configured |-> FALSE, data |-> "nil", client |-> FALSE, diags |-> <<>>]

\* a plausible slip: the client field is assigned before the type is checked
ResourceConfiguredUnchecked(r, data) ==
    [configured |-> TRUE, data |-> data,
     client |-> IF data = "nil" THEN r.client ELSE TRUE,
     diags |-> IF data = "other" THEN <<"Unexpected Resource Configure Type">>
               ELSE <<>>]

\* a resource instance after its Configure was handed the provider data
ResourceConfigured(r, data) ==
    [configured |-> TRUE, data |-> data,
     client |-> IF data = "client" THEN TRUE ELSE r.client,
     diags |-> IF data = "other" THEN <<"Unexpected Resource Configure Type">>
               ELSE <<>>]

\* the resource instances the handlers run with: each holds the client handle
ReadyResources == [i \in Instances |-> ResourceConfigured(NewResource, "client")]

(* ------------------------------- resources ----------------------------- *)

\* one resource of any kind, not yet created; a plan renames a user only
\* where another user exists, the one case in which the name decides what
\* Create does
Init ==
    /\ kind \in Kinds
    /\ idsOrder \in (IF kind = "role" THEN IdsOrders ELSE {"names"})
    /\ edgeDesc \in (IF kind \in {"role", "group", "user"} THEN BOOLEAN ELSE {FALSE})
    /\ \E c \in [RelsOf(kind) \ {"tasks", "workflows"} -> 1..2] :
        /\ \A r \in DOMAIN c : c[r] <= Len(ListingsOf(r))
        /\ listing = [r \in DOMAIN c |-> ListingsOf(r)[c[r]]]
    /\ remote \in (IF kind = "user" THEN {<<>>, <<ExistingUser>>} ELSE {<<>>})
    /\ nextId = Len(remote) + 1
    /\ state = NullState(kind)
    /\ createdId = 0
    /\ planNames = (IF kind \in {"role", "group"} \/ (kind = "user" /\ remote = <<>>)
                    THEN {"n1"} ELSE ResNames)
    /\ planRels = "any"
    /\ fault = 0
    /\ updates = 0
    /\ destroyed = FALSE
    /\ provider = ReadyProvider
    /\ last = NoOp(kind, "Init")
    /\ now = 1
    /\ lastUpdated = 0
    /\ resources = ReadyResources
    /\ procs = <<>>
    /\ probe = <<>>

\* the listing of a relation (none for tasks and workflows)
Lst(r) == IF r \in DOMAIN listing THEN listing[r] ELSE <<>>

\* the remote entity store after the remote system created an entity
Created(n) ==
    remote \o <<IF kind = "user"
                THEN [name |-> n, rels |-> NoAssoc(kind), email |-> PlannedEmail]
                ELSE IF kind = "status_template"
                THEN [name |-> n, rels |-> NoAssoc(kind), color |-> PlannedColor]
                ELSE [name |-> n, rels |-> NoAssoc(kind)]>>

\* the remote store after calls were applied to the relations of entity i
WithCalls(rem, i, calls) ==
    IF i \notin 1..Len(rem) THEN rem
    ELSE [rem EXCEPT ![i].rels =
            [r \in RelsOf(kind) |-> ApplyCalls(rem[i].rels[r], calls, r)]]

\* a plausible slip: the delete call removes the entities of the name of
\* entity i instead of the entity with that id
DeletedByName(rem, i) ==
    [j \in 1..Len(rem) |->
        IF rem[j].name = rem[i].name THEN Tombstone(kind) ELSE rem[j]]

\* the remote store after the remote system deleted entity i
Deleted(rem, i) == [rem EXCEPT ![i] = Tombstone(kind)]

\* a plausible slip: Update writes the scalar the remote entity has, as
\* Read does
StateScalarRemote(planned, held) == held

\* the scalar that group and user Update write to state: the plan is set
\* as the new state, its scalars as planned
StateScalar(planned, held) == planned

\* a plausible slip: Read fetches the entity a second time
ReadTwice(i) == <<Call("read", "", i), Call("read", "", i)>>

\* the one remote call of a Read
ReadCalls(i) == <<Call("read", "", i)>>

(* -------------------------------- role --------------------------------- *)

\* roleResource.Create
RoleCreate ==
    /\ kind = "role" /\ state.id = 0 /\ ~destroyed /\ nextId <= MaxId
    /\ \E plan \in Plans("role") :
        LET names == [i \in 1..Len(plan.rels.capabilities) |->
                        ElementName(plan.rels.capabilities[i])]
            ids == IDsByNames(names, Lst("capabilities"), idsOrder)
            calls == <<Call("create", "", nextId), Call("lookup", "capabilities", 0)>>
                     \o [i \in 1..Len(ids) |-> Call("assign", "capabilities", ids[i])]
            made == Effective(calls) # <<>>
        IN /\ remote' = IF made
                        THEN WithCalls(Created(plan.name), nextId, Effective(calls))
                        ELSE remote
           /\ nextId' = IF made THEN nextId + 1 ELSE nextId
           /\ state' = IF Failed(calls) THEN state
                       ELSE [id |-> nextId, name |-> plan.name,
                             rels |-> [r \in {"capabilities"} |-> SortStrings(names)]]
           /\ createdId' = IF Failed(calls) THEN createdId ELSE nextId
           /\ fault' = FaultAfter(calls)
           /\ lastUpdated' = IF Failed(calls) THEN lastUpdated ELSE now
           /\ last' = Op("Create", "ok", plan, NoAssoc(kind),
                         NullState(kind), calls, FALSE, "")
    /\ UNCHANGED <<kind, idsOrder, edgeDesc, listing, planNames, planRels,
                   now, resources, procs, probe, updates,
                   destroyed, provider>>

\* roleResource.Read
RoleRead ==
    /\ kind = "role" /\ state.id # 0
    /\ LET role == Remote(state.id)
           edges == EdgesOf(role.rels.capabilities, Lst("capabilities"), edgeDesc)
           calls == ReadCalls(state.id)
       IN /\ state' = IF Failed(calls) THEN state
                      ELSE [id |-> state.id, name |-> role.name,
                            rels |-> [r \in {"capabilities"} |->
                                        SortStrings(NamesOfEdges(edges))]]
          /\ fault' = FaultAfter(calls)
          /\ last' = Op("Read", "ok", ReadPlan, role.rels, PriorOf(state),
                        calls, FALSE, AfterOf)
    /\ UNCHANGED <<kind, idsOrder, edgeDesc, listing, planNames, planRels,
                   now, lastUpdated, resources, procs, probe, updates,
                   destroyed, provider,
                   remote, nextId, createdId>>

\* roleResource.Update
RoleUpdate ==
    /\ kind = "role" /\ state.id # 0
    /\ \E plan \in Plans("role") :
        LET role == Remote(state.id)
            capabilitiesPlan == plan.rels.capabilities
            edges == EdgesOf(role.rels.capabilities, Lst("capabilities"), edgeDesc)
            ids == IDsByNames(capabilitiesPlan, Lst("capabilities"), idsOrder)
            rm == RemoveLoop(edges, capabilitiesPlan, "capabilities")
            ad == RoleAddLoop(capabilitiesPlan, 1, rm.of, ids)
            calls == <<Call("read", "", state.id), Call("lookup", "capabilities", 0)>>
                     \o rm.calls \o ad.calls
        IN /\ remote' = WithCalls(remote, state.id, Effective(calls))
           /\ state' = IF Failed(calls) \/ ad.panic THEN state
                       ELSE [id |-> state.id, name |-> plan.name,
                             rels |-> [r \in {"capabilities"} |-> SortStrings(ad.of)]]
           /\ fault' = FaultAfter(calls)
           /\ lastUpdated' = IF Failed(calls) \/ ad.panic THEN lastUpdated ELSE now
           /\ last' = Op("Update", IF ad.panic THEN "panic" ELSE "ok",
                         plan, role.rels, NullState(kind), calls,
                         last.op = "Update" /\ last.result = "ok"
                            /\ last.desired = plan.rels,
                         "")
    /\ UNCHANGED <<kind, idsOrder, edgeDesc, listing, planNames, planRels,
                   now, resources, procs, probe, updates,
                   destroyed, provider,
                   nextId, createdId>>

(* -------------------------------- group -------------------------------- *)

\* groupResource.Create
GroupCreate ==
    /\ kind = "group" /\ state.id = 0 /\ ~destroyed /\ nextId <= MaxId
    /\ \E plan \in Plans("group") :
        LET ro == CreateLoop(plan.rels.roles, Lst("roles"), "roles")
            ma == CreateLoop(plan.rels.allowed_marking, Lst("allowed_marking"),
                             "allowed_marking")
            calls == <<Call("create", "", nextId), Call("list", "roles", 0)>> \o ro.calls
                     \o <<Call("list", "allowed_marking", 0)>> \o ma.calls
            made == Effective(calls) # <<>>
        IN /\ remote' = IF made
                        THEN WithCalls(Created(plan.name), nextId, Effective(calls))
                        ELSE remote
           /\ nextId' = IF made THEN nextId + 1 ELSE nextId
           /\ state' = IF Failed(calls) THEN state
                       ELSE [id |-> nextId, name |-> plan.name,
                             rels |-> [r \in {"roles", "allowed_marking"} |->
                                         IF r = "roles" THEN SortStrings(ro.of)
                                         ELSE SortStrings(ma.of)]]
           /\ createdId' = IF Failed(calls) THEN createdId ELSE nextId
           /\ fault' = FaultAfter(calls)
           /\ lastUpdated' = IF Failed(calls) THEN lastUpdated ELSE now
           /\ last' = Op("Create", "ok", plan, NoAssoc(kind),
                         NullState(kind), calls, FALSE, "")
    /\ UNCHANGED <<kind, idsOrder, edgeDesc, listing, planNames, planRels,
                   now, resources, procs, probe, updates,
                   destroyed, provider>>

\* groupResource.Read
GroupRead ==
    /\ kind = "group" /\ state.id # 0
    /\ LET group == Remote(state.id)
           calls == ReadCalls(state.id)
       IN /\ state' = IF Failed(calls) THEN state
                      ELSE [id |-> state.id, name |-> group.name,
                            rels |-> [r \in {"roles", "allowed_marking"} |->
                                        SortStrings(NamesOfEdges(
                                            EdgesOf(group.rels[r], Lst(r), edgeDesc)))]]
          /\ fault' = FaultAfter(calls)
          /\ last' = Op("Read", "ok", ReadPlan, group.rels, PriorOf(state),
                        calls, FALSE, AfterOf)
    /\ UNCHANGED <<kind, idsOrder, edgeDesc, listing, planNames, planRels,
                   now, lastUpdated, resources, procs, probe, updates,
                   destroyed, provider,
                   remote, nextId, createdId>>

\* groupResource.Update
GroupUpdate ==
    /\ kind = "group" /\ state.id # 0
    /\ \E plan \in Plans("group") :
        LET group == Remote(state.id)
            ro == Reconcile(EdgesOf(group.rels.roles, Lst("roles"), edgeDesc),
                            plan.rels.roles, Lst("roles"), "roles")
            ma == Reconcile(EdgesOf(group.rels.allowed_marking, Lst("allowed_marking"),
                                    edgeDesc),
                            plan.rels.allowed_marking, Lst("allowed_marking"),
                            "allowed_marking")
            calls == <<Call("read", "", state.id)>> \o ro.calls \o ma.calls
        IN /\ remote' = WithCalls(remote, state.id, Effective(calls))
           /\ state' = IF Failed(calls) THEN state
                       ELSE [id |-> state.id, name |-> StateScalar(plan.name, group.name),
                             rels |-> [r \in {"roles", "allowed_marking"} |->
                                         IF r = "roles" THEN ro.list ELSE ma.list]]
           /\ fault' = FaultAfter(calls)
           /\ lastUpdated' = IF Failed(calls) THEN lastUpdated ELSE now
           /\ last' = Op("Update", "ok", plan, group.rels,
                         NullState(kind), calls,
                         last.op = "Update" /\ last.result = "ok"
                            /\ last.desired = plan.rels,
                         "")
    /\ UNCHANGED <<kind, idsOrder, edgeDesc, listing, planNames, planRels,
                   now, resources, procs, probe, updates,
                   destroyed, provider,
                   nextId, createdId>>

(* -------------------------------- user --------------------------------- *)

\* a plausible slip: the listing is not searched and a user is created
\* whatever the listing holds
ExistingUserNone(n) == 0

\* index of the first listed user with the planned name, 0 when none
ExistingUserId(n) ==
    IF \E i \in 1..Len(remote) : remote[i].name = n
    THEN CHOOSE i \in 1..Len(remote) :
            remote[i].name = n /\ \A j \in 1..(i - 1) : remote[j].name # n
    ELSE 0

\* userResource.Create
UserCreate ==
    /\ kind = "user" /\ state.id = 0 /\ ~destroyed
    /\ \E plan \in Plans("user") :
        LET found == ExistingUserId(plan.name)
            id == IF found # 0 THEN found ELSE nextId
            gr == CreateLoop(plan.rels.groups, Lst("groups"), "groups")
            calls == <<Call("listUsers", "", 0)>>
                     \o (IF found # 0 THEN <<>> ELSE <<Call("create", "", nextId)>>)
                     \o <<Call("list", "groups", 0)>> \o gr.calls
            made == found = 0 /\ Len(Effective(calls)) >= 2
        IN /\ found = 0 => nextId <= MaxId
           /\ remote' = WithCalls(IF made THEN Created(plan.name) ELSE remote,
                                  id, Effective(calls))
           /\ nextId' = IF made THEN nextId + 1 ELSE nextId
           /\ state' = IF Failed(calls) THEN state
                       ELSE [id |-> id, name |-> plan.name,
                             rels |-> [r \in {"groups"} |-> SortStrings(gr.of)],
                             email |-> IF found # 0 THEN remote[found].email
                                       ELSE PlannedEmail]
           /\ createdId' = IF Failed(calls) THEN createdId ELSE id
           /\ fault' = FaultAfter(calls)
           /\ lastUpdated' = IF Failed(calls) THEN lastUpdated ELSE now
           /\ last' = Op("Create", "ok", plan,
                         IF found # 0 THEN remote[found].rels ELSE NoAssoc(kind),
                         NullState(kind), calls, FALSE, "")
    /\ UNCHANGED <<kind, idsOrder, edgeDesc, listing, planNames, planRels,
                   now, resources, procs, probe, updates,
                   destroyed, provider>>

\* userResource.Read
UserRead ==
    /\ kind = "user" /\ state.id # 0
    /\ LET user == Remote(state.id)
           edges == EdgesOf(user.rels.groups, Lst("groups"), edgeDesc)
           calls == ReadCalls(state.id)
       IN /\ state' = IF Failed(calls) THEN state
                      ELSE [id |-> state.id, name |-> user.name,
                            rels |-> [r \in {"groups"} |->
                                        SortStrings(NamesOfEdges(edges))],
                            email |-> user.email]
          /\ fault' = FaultAfter(calls)
          /\ last' = Op("Read", "ok", ReadPlan, user.rels, PriorOf(state),
                        calls, FALSE, AfterOf)
    /\ UNCHANGED <<kind, idsOrder, edgeDesc, listing, planNames, planRels,
                   now, lastUpdated, resources, procs, probe, updates,
                   destroyed, provider,
                   remote, nextId, createdId>>

\* userResource.Update
UserUpdate ==
    /\ kind = "user" /\ state.id # 0
    /\ \E plan \in Plans("user") :
        LET user == Remote(state.id)
            gr == Reconcile(EdgesOf(user.rels.groups, Lst("groups"), edgeDesc),
                            plan.rels.groups, Lst("groups"), "groups")
            calls == <<Call("read", "", state.id)>> \o gr.calls
        IN /\ remote' = WithCalls(remote, state.id, Effective(calls))
           /\ state' = IF Failed(calls) THEN state
                       ELSE [id |-> state.id, name |-> StateScalar(plan.name, user.name),
                             rels |-> [r \in {"groups"} |-> gr.list],
                             email |-> StateScalar(PlannedEmail, user.email)]
           /\ fault' = FaultAfter(calls)
           /\ lastUpdated' = IF Failed(calls) THEN lastUpdated ELSE now
           /\ last' = Op("Update", "ok", plan, user.rels,
                         NullState(kind), calls,
                         last.op = "Update" /\ last.result = "ok"
                            /\ last.desired = plan.rels,
                         "")
    /\ UNCHANGED <<kind, idsOrder, edgeDesc, listing, planNames, planRels,
                   now, resources, procs, probe, updates,
                   destroyed, provider,
                   nextId, createdId>>

(* ------------- marking definition, vocabulary, task template ----------- *)

\* Create of a resource type without relations: one remote creation call,
\* the id and the scalars of the created entity go to state
ScalarCreate(k) ==
    /\ kind = k /\ state.id = 0 /\ ~destroyed /\ nextId <= MaxId
    /\ \E plan \in Plans(k) :
        LET calls == <<Call("create", "", nextId)>>
        IN /\ remote' = IF Failed(calls) THEN remote ELSE Created(plan.name)
           /\ nextId' = IF Failed(calls) THEN nextId ELSE nextId + 1
           /\ state' = IF Failed(calls) THEN state
                       ELSE [id |-> nextId, name |-> plan.name, rels |-> EmptyRels(k)]
           /\ createdId' = IF Failed(calls) THEN createdId ELSE nextId
           /\ fault' = FaultAfter(calls)
           /\ lastUpdated' = IF Failed(calls) THEN lastUpdated ELSE now
           /\ last' = Op("Create", "ok", plan, NoAssoc(k), NullState(k),
                         calls, FALSE, "")
    /\ UNCHANGED <<kind, idsOrder, edgeDesc, listing, planNames, planRels,
                   now, resources, procs, probe, updates,
                   destroyed, provider>>

\* Read of a resource type without relations
ScalarRead(k) ==
    /\ kind = k /\ state.id # 0
    /\ LET calls == ReadCalls(state.id)
       IN /\ state' = IF Failed(calls) THEN state
                      ELSE [id |-> state.id, name |-> Remote(state.id).name,
                            rels |-> EmptyRels(k)]
          /\ fault' = FaultAfter(calls)
          /\ last' = Op("Read", "ok", ReadPlan, NoAssoc(k), PriorOf(state),
                        calls, FALSE, AfterOf)
    /\ UNCHANGED <<kind, idsOrder, edgeDesc, listing, planNames, planRels,
                   now, lastUpdated, resources, procs, probe, updates,
                   destroyed, provider,
                   remote, nextId, createdId>>

\* a plausible slip: Update changes the entity in place and keeps its id
UpdateInPlace(k) ==
    /\ kind = k /\ state.id # 0 /\ Exists(state.id)
    /\ \E plan \in Plans(k) :
        /\ remote' = [remote EXCEPT ![state.id].name = plan.name]
        /\ state' = [state EXCEPT !.name = plan.name]
        /\ last' = Op("Update", "ok", plan, NoAssoc(k),
                      [NullState(k) EXCEPT !.id = state.id],
                      <<Call("update", "", state.id)>>, FALSE, "")
    /\ updates' = updates + 1
    /\ lastUpdated' = now
    /\ UNCHANGED <<kind, idsOrder, edgeDesc, listing, planNames, planRels,
                   now, resources, procs, probe, fault,
                   destroyed, provider, nextId, createdId>>

\* Update of marking definition, vocabulary and task template: a second
\* remote creation call with the planned values, whose id goes to state
ScalarUpdate(k) ==
    /\ kind = k /\ state.id # 0 /\ nextId <= MaxId
    /\ \E plan \in Plans(k) :
        LET calls == <<Call("create", "", nextId)>>
        IN /\ remote' = IF Failed(calls) THEN remote ELSE Created(plan.name)
           /\ nextId' = IF Failed(calls) THEN nextId ELSE nextId + 1
           /\ state' = IF Failed(calls) THEN state
                       ELSE [id |-> nextId, name |-> plan.name, rels |-> EmptyRels(k)]
           /\ updates' = IF Failed(calls) THEN updates ELSE updates + 1
           /\ fault' = FaultAfter(calls)
           /\ lastUpdated' = IF Failed(calls) THEN lastUpdated ELSE now
           /\ last' = Op("Update", "ok", plan, NoAssoc(k),
                         [NullState(k) EXCEPT !.id = state.id], calls, FALSE, "")
    /\ UNCHANGED <<kind, idsOrder, edgeDesc, listing, planNames, planRels,
                   now, resources, procs, probe, destroyed,
                   provider, createdId>>

\* markingDefinitionResource.Create
MarkingDefinitionCreate == ScalarCreate("marking_definition")

\* markingDefinitionResource.Read
MarkingDefinitionRead == ScalarRead("marking_definition")

\* markingDefinitionResource.Update
MarkingDefinitionUpdate == ScalarUpdate("marking_definition")

\* vocabularyResource.Create
VocabularyCreate == ScalarCreate("vocabulary")

\* vocabularyResource.Read
VocabularyRead == ScalarRead("vocabulary")

\* vocabularyResource.Update
VocabularyUpdate == ScalarUpdate("vocabulary")

\* taskTemplateResource.Create
TaskTemplateCreate == ScalarCreate("task_template")

\* taskTemplateResource.Read
TaskTemplateRead == ScalarRead("task_template")

\* taskTemplateResource.Update
TaskTemplateUpdate == ScalarUpdate("task_template")

(* ------------------- case template, status template -------------------- *)

\* caseTemplateResource.Create: the task ids are part of the creation call,
\* the ids of the task edges of the created entity go to state
CaseTemplateCreate ==
    /\ kind = "case_template" /\ state.id = 0 /\ ~destroyed /\ nextId <= MaxId
    /\ \E plan \in Plans("case_template") :
        LET calls == <<Call("create", "", nextId)>>
        IN /\ remote' = IF Failed(calls) THEN remote
                        ELSE [Created(plan.name) EXCEPT
                                ![nextId].rels.tasks = plan.rels.tasks]
           /\ nextId' = IF Failed(calls) THEN nextId ELSE nextId + 1
           /\ state' = IF Failed(calls) THEN state
                       ELSE [id |-> nextId, name |-> plan.name,
                             rels |-> [r \in {"tasks"} |-> plan.rels.tasks]]
           /\ createdId' = IF Failed(calls) THEN createdId ELSE nextId
           /\ fault' = FaultAfter(calls)
           /\ lastUpdated' = IF Failed(calls) THEN lastUpdated ELSE now
           /\ last' = Op("Create", "ok", plan, NoAssoc(kind), NullState(kind),
                         calls, FALSE, "")
    /\ UNCHANGED <<kind, idsOrder, edgeDesc, listing, planNames, planRels,
                   now, resources, procs, probe, updates,
                   destroyed, provider>>

\* caseTemplateResource.Read
CaseTemplateRead ==
    /\ kind = "case_template" /\ state.id # 0
    /\ LET caseTemplate == Remote(state.id)
           calls == ReadCalls(state.id)
       IN /\ state' = IF Failed(calls) THEN state
                      ELSE [id |-> state.id, name |-> caseTemplate.name,
                            rels |-> [r \in {"tasks"} |-> caseTemplate.rels.tasks]]
          /\ fault' = FaultAfter(calls)
          /\ last' = Op("Read", "ok", ReadPlan, caseTemplate.rels, PriorOf(state),
                        calls, FALSE, AfterOf)
    /\ UNCHANGED <<kind, idsOrder, edgeDesc, listing, planNames, planRels,
                   now, lastUpdated, resources, procs, probe, updates,
                   destroyed, provider,
                   remote, nextId, createdId>>

\* Update with an empty body: no remote call, the response keeps the prior state
EmptyUpdate(k) ==
    /\ kind = k /\ state.id # 0
    /\ \E plan \in Plans(k) :
        last' = Op("Update", "ok", plan, NoAssoc(k), NullState(k), <<>>, FALSE, "")
    /\ UNCHANGED <<kind, idsOrder, edgeDesc, listing, planNames, planRels,
                   now, lastUpdated, resources, procs, probe, fault, updates,
                   destroyed, provider,
                   remote, nextId, state, createdId>>

\* caseTemplateResource.Update
CaseTemplateUpdate == EmptyUpdate("case_template")

\* statusTemplateResource.Create: the entity is created, then the status is
\* set in the workflow of every planned entity type; the planned workflows
\* go to state as given
StatusTemplateCreate ==
    /\ kind = "status_template" /\ state.id = 0 /\ ~destroyed /\ nextId <= MaxId
    /\ \E plan \in Plans("status_template") :
        LET workflows == plan.rels.workflows
            calls == <<Call("create", "", nextId)>>
                     \o [i \in 1..Len(workflows) |->
                           Call("setWorkflow", "workflows", workflows[i])]
            made == Effective(calls) # <<>>
        IN /\ remote' = IF made
                        THEN WithCalls(Created(plan.name), nextId, Effective(calls))
                        ELSE remote
           /\ nextId' = IF made THEN nextId + 1 ELSE nextId
           /\ state' = IF Failed(calls) THEN state
                       ELSE [id |-> nextId, name |-> plan.name,
                             rels |-> [r \in {"workflows"} |-> workflows],
                             color |-> PlannedColor]
           /\ createdId' = IF Failed(calls) THEN createdId ELSE nextId
           /\ fault' = FaultAfter(calls)
           /\ lastUpdated' = IF Failed(calls) THEN lastUpdated ELSE now
           /\ last' = Op("Create", "ok", plan, NoAssoc(kind), NullState(kind),
                         calls, FALSE, "")
    /\ UNCHANGED <<kind, idsOrder, edgeDesc, listing, planNames, planRels,
                   now, resources, procs, probe, updates,
                   destroyed, provider>>

\* a plausible slip: workflows are dropped only when the remote system
\* reports no usage
WorkflowsReadUnlessUsed(workflows, usages) ==
    IF Len(workflows) # usages /\ usages = 0 THEN <<>> ELSE workflows

\* "compare only the number of usages": the workflows of the prior state
\* are kept when their number equals the remote usages count, else replaced
\* by none
WorkflowsRead(workflows, usages) ==
    IF Len(workflows) # usages THEN <<>> ELSE workflows

\* statusTemplateResource.Read
StatusTemplateRead ==
    /\ kind = "status_template" /\ state.id # 0
    /\ LET statusTemplate == Remote(state.id)
           usages == Cardinality(statusTemplate.rels.workflows)
           calls == ReadCalls(state.id)
       IN /\ state' = IF Failed(calls) THEN state
                      ELSE [id |-> state.id, name |-> statusTemplate.name,
                            rels |-> [r \in {"workflows"} |->
                                        WorkflowsRead(state.rels.workflows, usages)],
                            color |-> statusTemplate.color]
          /\ fault' = FaultAfter(calls)
          /\ last' = Op("Read", "ok", ReadPlan, statusTemplate.rels,
                        PriorOf(state), calls, FALSE, AfterOf)
    /\ UNCHANGED <<kind, idsOrder, edgeDesc, listing, planNames, planRels,
                   now, lastUpdated, resources, procs, probe, updates,
                   destroyed, provider,
                   remote, nextId, createdId>>

\* statusTemplateResource.Update
StatusTemplateUpdate == EmptyUpdate("status_template")

(* ------------------------- Delete and ImportState ----------------------- *)

\* Delete of any resource type: one remote delete call with the id in
\* state; the framework removes the state when no error was reported, which
\* ends the resource instance
Delete(k) ==
    /\ kind = k /\ state.id # 0
    /\ LET calls == <<Call("delete", "", state.id)>>
       IN /\ remote' = IF Failed(calls) THEN remote ELSE Deleted(remote, state.id)
          /\ state' = IF Failed(calls) THEN state ELSE NullState(k)
          /\ createdId' = IF Failed(calls) THEN createdId ELSE 0
          /\ updates' = IF Failed(calls) THEN updates ELSE 0
          /\ destroyed' = ~Failed(calls)
          /\ fault' = FaultAfter(calls)
          /\ lastUpdated' = IF Failed(calls) THEN lastUpdated ELSE 0
          /\ last' = Op("Delete", "ok", NoPlan(k), NoAssoc(k),
                        [NullState(k) EXCEPT !.id = state.id], calls, FALSE, "")
    /\ UNCHANGED <<kind, idsOrder, edgeDesc, listing, planNames, planRels,
                   now, resources, procs, probe, provider,
                   nextId>>

\* an import key that is the id of no remote entity, now or later
NoSuchId == MaxId + 1

\* ImportState of any resource type: resource.ImportStatePassthroughID
\* writes the import key to the id attribute of an otherwise null state
ImportState(k) ==
    /\ kind = k /\ state.id = 0 /\ ~destroyed
    /\ \E key \in (1..Len(remote)) \cup {NoSuchId} :
        state' = [NullState(k) EXCEPT !.id = key]
    /\ last' = NoOp(k, "Import")
    /\ lastUpdated' = 0
    /\ UNCHANGED <<kind, idsOrder, edgeDesc, listing, planNames, planRels,
                   now, resources, procs, probe, fault, updates,
                   destroyed, provider,
                   remote, nextId, createdId>>

\* roleResource.Delete
RoleDelete == Delete("role")

\* roleResource.ImportState
RoleImportState == ImportState("role")

\* groupResource.Delete
GroupDelete == Delete("group")

\* groupResource.ImportState
GroupImportState == ImportState("group")

\* userResource.Delete
UserDelete == Delete("user")

\* userResource.ImportState
UserImportState == ImportState("user")

\* markingDefinitionResource.Delete
MarkingDefinitionDelete == Delete("marking_definition")

\* markingDefinitionResource.ImportState
MarkingDefinitionImportState == ImportState("marking_definition")

\* vocabularyResource.Delete
VocabularyDelete == Delete("vocabulary")

\* vocabularyResource.ImportState
VocabularyImportState == ImportState("vocabulary")

\* taskTemplateResource.Delete
TaskTemplateDelete == Delete("task_template")

\* taskTemplateResource.ImportState
TaskTemplateImportState == ImportState("task_template")

\* caseTemplateResource.Delete
CaseTemplateDelete == Delete("case_template")

\* caseTemplateResource.ImportState
CaseTemplateImportState == ImportState("case_template")

\* statusTemplateResource.Delete
StatusTemplateDelete == Delete("status_template")

\* statusTemplateResource.ImportState
StatusTemplateImportState == ImportState("status_template")

(* ----------------------------- environment ----------------------------- *)

\* somebody else assigns or unassigns a relation of the remote entity; the
\* usages of a workflow are alike, so the last one goes or a next one comes
Drift ==
    /\ state.id # 0 /\ Exists(state.id)
    /\ \E r \in RelsOf(kind) : \E t \in Targets(r, Lst(r)) :
        /\ r = "workflows" =>
              LET n == Cardinality({u \in remote[state.id].rels[r] : u.wf = t.wf})
              IN t.inst \in {n, n + 1}
        /\ remote' = [remote EXCEPT ![state.id].rels[r] =
                        IF t \in @ THEN @ \ {t} ELSE @ \cup {t}]
    /\ last' = NoOp(kind, "Drift")
    /\ UNCHANGED <<kind, idsOrder, edgeDesc, listing, planNames, planRels,
                   now, lastUpdated, resources, procs, probe, fault, updates,
                   destroyed, provider,
                   nextId, state, createdId>>

Next ==
    \/ RoleCreate
    \/ RoleRead
    \/ RoleUpdate
    \/ RoleDelete
    \/ RoleImportState
    \/ GroupCreate
    \/ GroupRead
    \/ GroupUpdate
    \/ GroupDelete
    \/ GroupImportState
    \/ UserCreate
    \/ UserRead
    \/ UserUpdate
    \/ UserDelete
    \/ UserImportState
    \/ MarkingDefinitionCreate
    \/ MarkingDefinitionRead
    \/ MarkingDefinitionUpdate
    \/ MarkingDefinitionDelete
    \/ MarkingDefinitionImportState
    \/ VocabularyCreate
    \/ VocabularyRead
    \/ VocabularyUpdate
    \/ VocabularyDelete
    \/ VocabularyImportState
    \/ TaskTemplateCreate
    \/ TaskTemplateRead
    \/ TaskTemplateUpdate
    \/ TaskTemplateDelete
    \/ TaskTemplateImportState
    \/ CaseTemplateCreate
    \/ CaseTemplateRead
    \/ CaseTemplateUpdate
    \/ CaseTemplateDelete
    \/ CaseTemplateImportState
    \/ StatusTemplateCreate
    \/ StatusTemplateRead
    \/ StatusTemplateUpdate
    \/ StatusTemplateDelete
    \/ StatusTemplateImportState
    \/ Drift

Spec == Init /\ [][Next]_vars

(* --------------------------- failing remote calls ---------------------- *)

\* a remote system that will fail one call; one listing per relation, edges
\* by ascending id, no entity yet
FaultInit ==
    /\ kind \in Kinds
    /\ idsOrder = "names"
    /\ edgeDesc = FALSE
    /\ listing = [r \in RelsOf(kind) \ {"tasks", "workflows"} |-> ListingsOf(r)[1]]
    /\ remote = <<>>
    /\ nextId = 1
    /\ state = NullState(kind)
    /\ createdId = 0
    /\ planNames = {"n1"}
    /\ planRels = "few"
    /\ fault \in 1..MaxFault
    /\ updates = 0
    /\ destroyed = FALSE
    /\ provider = ReadyProvider
    /\ last = NoOp(kind, "Init")
    /\ now = 1
    /\ lastUpdated = 0
    /\ resources = ReadyResources
    /\ procs = <<>>
    /\ probe = <<>>

FaultSpec == FaultInit /\ [][Next]_vars

(* ------------------------------ passing time --------------------------- *)

\* a second passes between two operations
Tick ==
    /\ now < MaxTime
    /\ now' = now + 1
    /\ UNCHANGED <<kind, idsOrder, edgeDesc, listing, planNames, planRels, lastUpdated,
                   resources, procs, probe, fault, updates, destroyed, provider,
                   remote, nextId, state, createdId, last>>

\* a clock that starts to run with a resource not yet created; the
\* configuration may rename the resource, and a user may exist before the
\* provider runs; one listing per relation, edges by ascending id
TimedInit ==
    /\ kind \in Kinds
    /\ idsOrder = "names"
    /\ edgeDesc = FALSE
    /\ listing = [r \in RelsOf(kind) \ {"tasks", "workflows"} |-> ListingsOf(r)[1]]
    /\ remote \in (IF kind = "user" THEN {<<>>, <<ExistingUser>>} ELSE {<<>>})
    /\ nextId = Len(remote) + 1
    /\ state = NullState(kind)
    /\ createdId = 0
    /\ planNames = ResNames
    /\ planRels = "few"
    /\ fault = 0
    /\ updates = 0
    /\ destroyed = FALSE
    /\ provider = ReadyProvider
    /\ last = NoOp(kind, "Init")
    /\ now = 1
    /\ lastUpdated = 0
    /\ resources = ReadyResources
    /\ procs = <<>>
    /\ probe = <<>>

TimedNext == Next \/ Tick

TimedSpec == TimedInit /\ [][TimedNext]_vars

(* ------------------------- provider configuration ---------------------- *)

\* a provider instance before Configure, with the resource at rest
ProviderInit ==
    /\ kind = "role"
    /\ idsOrder = "names"
    /\ edgeDesc = FALSE
    /\ listing = [r \in {"capabilities"} |-> ListingA]
    /\ remote = <<>>
    /\ nextId = 1
    /\ state = NullState(kind)
    /\ createdId = 0
    /\ planNames = {"n1"}
    /\ planRels = "few"
    /\ fault = 0
    /\ updates = 0
    /\ destroyed = FALSE
    /\ \E cu \in ConfigValues, ct \in ConfigValues, eu \in EnvValues, et \in EnvValues,
          h \in BOOLEAN :
          provider = Unconfigured(cu, ct, eu, et, h)
    /\ last = NoOp(kind, "Init")
    /\ now = 1
    /\ lastUpdated = 0
    /\ resources = [i \in Instances |-> NewResource]
    /\ procs = <<>>
    /\ probe = <<>>

\* openctiProvider.Configure
Configure ==
    /\ ~provider.done
    /\ provider' = Configured(provider)
    /\ UNCHANGED <<kind, idsOrder, edgeDesc, listing, remote, nextId, state, createdId,
                   planNames, planRels, now, lastUpdated, resources, procs, probe,
                   fault, updates, destroyed, last>>

\* Configure of a resource instance: the framework hands it the provider
\* data, which is nil until the provider has published the client handle
ResourceConfigure ==
    /\ \E i \in Instances, data \in ResourceData :
        /\ ~resources[i].configured
        /\ data = "client" => provider.client
        /\ data = "other" => provider.done
        /\ resources' = [resources EXCEPT ![i] = ResourceConfigured(@, data)]
    /\ UNCHANGED <<kind, idsOrder, edgeDesc, listing, planNames, planRels, now, lastUpdated,
                   procs, probe, fault, updates, destroyed, provider,
                   remote, nextId, state, createdId, last>>

\* an operation of the resource, run by an instance that holds the client
Operate ==
    /\ \E i \in Instances : resources[i].client
    /\ Next

ProviderNext == Configure \/ ResourceConfigure \/ Operate

ProviderSpec == ProviderInit /\ [][ProviderNext]_vars


(* ----------------------- user Creates side by side --------------------- *)

\* the user Create operations Terraform runs side by side, one per resource
\* instance of the configuration
Procs == {"p1", "p2"}

\* a user Create before its first remote call: the planned name and groups,
\* the user the search of the listing found, the user it works on, whether
\* it issued the creation call, the position of the assignment loop, the
\* groups assigned so far and the state it wrote
NewProc(n, g) ==
    [pc |-> "start", name |-> n, groups |-> g, found |-> 0, id |-> 0,
     made |-> FALSE, i |-> 1, assigned |-> <<>>, state |-> NullState("user")]

\* userResource.Create up to the search of the listing: ListUsers, then the
\* first listed user with the planned name
RaceListUsers(p) ==
    /\ procs[p].pc = "start"
    /\ procs' = [procs EXCEPT ![p].pc = "listed",
                              ![p].found = ExistingUserId(procs[p].name)]
    /\ UNCHANGED <<kind, idsOrder, edgeDesc, listing, remote, nextId, state,
                   createdId, planNames, planRels, fault, updates, destroyed,
                   provider, last, now, lastUpdated, resources, probe>>

\* "Create new user": CreateUser only when the search found no user
RaceCreateUser(p) ==
    /\ procs[p].pc = "listed"
    /\ LET absent == procs[p].found = 0
       IN /\ remote' = IF absent THEN Created(procs[p].name) ELSE remote
          /\ nextId' = IF absent THEN nextId + 1 ELSE nextId
          /\ procs' = [procs EXCEPT ![p].pc = "have",
                                    ![p].made = absent,
                                    ![p].id = IF absent THEN nextId
                                              ELSE procs[p].found]
    /\ UNCHANGED <<kind, idsOrder, edgeDesc, listing, state,
                   createdId, planNames, planRels, fault, updates, destroyed,
                   provider, last, now, lastUpdated, resources, probe>>

\* ListGroups
RaceListGroups(p) ==
    /\ procs[p].pc = "have"
    /\ procs' = [procs EXCEPT ![p].pc = "assign"]
    /\ UNCHANGED <<kind, idsOrder, edgeDesc, listing, remote, nextId, state,
                   createdId, planNames, planRels, fault, updates, destroyed,
                   provider, last, now, lastUpdated, resources, probe>>

\* one turn of "Assign the groups": the planned group is matched by its
\* trimmed quoted form and the first match is assigned
RaceAssignGroup(p) ==
    /\ procs[p].pc = "assign" /\ procs[p].i <= Len(procs[p].groups)
    /\ LET lst == Lst("groups")
           m == FirstMatch(lst, ElementName(procs[p].groups[procs[p].i]))
       IN /\ remote' = IF m = 0 THEN remote
                       ELSE WithCalls(remote, procs[p].id,
                                      <<Call("assign", "groups", lst[m].id)>>)
          /\ procs' = [procs EXCEPT
                         ![p].i = procs[p].i + 1,
                         ![p].assigned = IF m = 0 THEN procs[p].assigned
                                         ELSE procs[p].assigned \o <<lst[m].name>>]
    /\ UNCHANGED <<kind, idsOrder, edgeDesc, listing, nextId, state,
                   createdId, planNames, planRels, fault, updates, destroyed,
                   provider, last, now, lastUpdated, resources, probe>>

\* the state the Create writes: the id, name and email of the user it works
\* on, the sorted names of the groups it assigned
RaceSetState(p) ==
    /\ procs[p].pc = "assign" /\ procs[p].i > Len(procs[p].groups)
    /\ procs' = [procs EXCEPT
                   ![p].pc = "done",
                   ![p].state = [id |-> procs[p].id, name |-> procs[p].name,
                                 rels |-> [r \in {"groups"} |->
                                             SortStrings(procs[p].assigned)],
                                 email |-> IF procs[p].made THEN PlannedEmail
                                           ELSE remote[procs[p].id].email]]
    /\ UNCHANGED <<kind, idsOrder, edgeDesc, listing, remote, nextId, state,
                   createdId, planNames, planRels, fault, updates, destroyed,
                   provider, last, now, lastUpdated, resources, probe>>

\* two user resources of one configuration, applied at once; a user may exist
\* before the provider runs
RaceInit ==
    /\ kind = "user"
    /\ idsOrder = "names"
    /\ edgeDesc = FALSE
    /\ listing = [r \in {"groups"} |-> ListingA]
    /\ remote \in {<<>>, <<ExistingUser>>}
    /\ nextId = Len(remote) + 1
    /\ state = NullState(kind)
    /\ createdId = 0
    /\ planNames = ResNames
    /\ planRels = "few"
    /\ fault = 0
    /\ updates = 0
    /\ destroyed = FALSE
    /\ provider = ReadyProvider
    /\ last = NoOp(kind, "Init")
    /\ now = 1
    /\ lastUpdated = 0
    /\ resources = ReadyResources
    /\ procs \in [Procs -> {NewProc(pl.name, pl.rels.groups) : pl \in Plans("user")}]
    /\ probe = <<>>

RaceNext ==
    \E p \in Procs :
        \/ RaceListUsers(p)
        \/ RaceCreateUser(p)
        \/ RaceListGroups(p)
        \/ RaceAssignGroup(p)
        \/ RaceSetState(p)

RaceSpec == RaceInit /\ [][RaceNext]_vars

(* ------------------------ matching a desired name ---------------------- *)

\* the characters of the names matched: the double quote, the backslash and
\* a letter
NameChars == {QUOTE, BACKSLASH, Head(EXPLORE)}

ProbeNames == SeqsUpTo(NameChars, MaxNameLen)

\* the remote listings matched against: none, one or two entities
ProbeListings ==
    {<<>>} \cup {<<Entity(1, a)>> : a \in ProbeNames}
           \cup {<<Entity(1, a), Entity(2, b)>> : a \in ProbeNames, b \in ProbeNames}

\* "Assign the roles" of groupResource.Create (as "Assign the groups" of
\* userResource.Create) on the one desired name
ProbeCreate ==
    /\ probe # <<>> /\ ~probe.created
    /\ probe' = [probe EXCEPT
                   !.created = TRUE,
                   !.create = CreateLoop(<<probe.name>>, probe.lst, "roles").calls]
    /\ UNCHANGED <<kind, idsOrder, edgeDesc, listing, remote, nextId, state,
                   createdId, planNames, planRels, fault, updates, destroyed,
                   provider, last, now, lastUpdated, resources, procs>>

\* "Add roles" of groupResource.Update (as "Add groups" of
\* userResource.Update) on the one desired name, the group holding no role
ProbeUpdate ==
    /\ probe # <<>> /\ ~probe.updated
    /\ probe' = [probe EXCEPT
                   !.updated = TRUE,
                   !.update = AddLoop(<<probe.name>>, <<>>, probe.lst, "roles").calls]
    /\ UNCHANGED <<kind, idsOrder, edgeDesc, listing, remote, nextId, state,
                   createdId, planNames, planRels, fault, updates, destroyed,
                   provider, last, now, lastUpdated, resources, procs>>

\* a desired name and a remote listing, handed to Create and to Update
ProbeInit ==
    /\ kind = "group"
    /\ idsOrder = "names"
    /\ edgeDesc = FALSE
    /\ listing = [r \in RelsOf(kind) |-> ListingsOf(r)[1]]
    /\ remote = <<>>
    /\ nextId = 1
    /\ state = NullState(kind)
    /\ createdId = 0
    /\ planNames = {"n1"}
    /\ planRels = "few"
    /\ fault = 0
    /\ updates = 0
    /\ destroyed = FALSE
    /\ provider = ReadyProvider
    /\ last = NoOp(kind, "Init")
    /\ now = 1
    /\ lastUpdated = 0
    /\ resources = ReadyResources
    /\ procs = <<>>
    /\ probe \in [name : ProbeNames, lst : ProbeListings,
                  created : {FALSE}, create : {<<>>},
                  updated : {FALSE}, update : {<<>>}]

ProbeNext == ProbeCreate \/ ProbeUpdate

ProbeSpec == ProbeInit /\ [][ProbeNext]_vars

(* ------------------------------ properties ------------------------------ *)

\* the resource types that reconcile name lists
RelKinds == {"role", "group", "user"}

IsSorted(s) == \A i \in 1..(Len(s) - 1) : ~StrLess(s[i + 1], s[i])

\* the names of a set of related entities
NameSet(ids, lst) == {lst[i].name : i \in {j \in 1..Len(lst) : lst[j].id \in ids}}

\* the relations the remote system holds for the resource in state
Held(r) == Remote(state.id).rels[r]

\* the ids of the calls of one kind that the last operation issued for r
CallIds(c, r) ==
    {last.calls[i].id : i \in {j \in 1..Len(last.calls) :
        last.calls[j].call = c /\ last.calls[j].rel = r}}

\* the number of calls of one kind that the last operation issued for r
CallCount(c, r) ==
    Cardinality({j \in 1..Len(last.calls) :
        last.calls[j].call = c /\ last.calls[j].rel = r})

Resolves(n, r) == FirstMatch(Lst(r), n) # 0

Succeeded(o) == last.op = o /\ last.result = "ok"

\* C1: after a successful group or user Update whose desired names all match
\* a listed entity, the names the remote entity holds are exactly the desired
\* names
C1_UpdateReachesDesired ==
    (kind \in {"group", "user"} /\ Succeeded("Update")) =>
        \A r \in RelsOf(kind) :
            (\A i \in 1..Len(last.desired[r]) : Resolves(last.desired[r][i], r)) =>
                NameSet(Held(r), Lst(r)) = Range(last.desired[r])

\* an Update that both unassigned a held group and assigned a missing one
C1_Witness ==
    /\ kind = "user" /\ Succeeded("Update")
    /\ last.desired.groups = <<KNOWLEDGE, EXPLORE>>
    /\ listing.groups = ListingA
    /\ last.priorAssoc.groups = {2, 3}
    /\ CallCount("unassign", "groups") = 1 /\ CallCount("assign", "groups") = 1
    /\ Held("groups") = {1, 2}

\* the name of the listed entity with this id
NameOfId(i, lst) == lst[CHOOSE j \in 1..Len(lst) : lst[j].id = i].name

\* the names of the entities the last operation assigned for r, in call order
AssignedNames(r) ==
    LET a == SelectSeq(last.calls, LAMBDA c : c.call = "assign" /\ c.rel = r)
    IN [i \in 1..Len(a) |-> NameOfId(a[i].id, Lst(r))]

\* C2: the relation list an Update writes is (current names minus the names
\* unassigned) union (the names newly assigned), in ascending order
C2_UpdateListIsRetainedPlusAdded ==
    (kind \in RelKinds /\ Succeeded("Update")) =>
        \A r \in RelsOf(kind) :
            /\ Range(state.rels[r]) =
                 NameSet((last.priorAssoc[r] \ CallIds("unassign", r))
                            \cup CallIds("assign", r), Lst(r))
            /\ IsSorted(state.rels[r])

\* C3: an Update that repeats the desired relations of the successful Update
\* just before it issues no assign and no unassign call
C3_RepeatedUpdateIssuesNoCall ==
    (kind \in RelKinds /\ last.op = "Update" /\ last.repeat) =>
        \A r \in RelsOf(kind) :
            CallCount("assign", r) = 0 /\ CallCount("unassign", r) = 0

\* C4: role Update issues one unassign call per held capability whose name is
\* not desired, one assign call per desired name that is not held and resolves,
\* and no other assign or unassign call; desired {KNOWLEDGE, EXPLORE} against
\* current {KNOWLEDGE, SETTINGS} gives [EXPLORE, KNOWLEDGE]
C4_RoleUpdateAppliesOnlyDeltas ==
    (kind = "role" /\ Succeeded("Update")) =>
        LET plan == last.desired.capabilities
            cur == last.priorAssoc.capabilities
            lst == Lst("capabilities")
            drop == {i \in cur : ~Contains(plan, NameOfId(i, lst))}
            add == {lst[FirstMatch(lst, n)].id :
                      n \in {m \in Range(plan) :
                               Resolves(m, "capabilities") /\ m \notin NameSet(cur, lst)}}
        IN /\ CallIds("unassign", "capabilities") = drop
           /\ CallCount("unassign", "capabilities") = Cardinality(drop)
           /\ CallIds("assign", "capabilities") = add
           /\ CallCount("assign", "capabilities") = Cardinality(add)
           /\ (plan = <<KNOWLEDGE, EXPLORE>> /\ NameSet(cur, lst) = {KNOWLEDGE, SETTINGS})
                 => state.rels.capabilities = <<EXPLORE, KNOWLEDGE>>

\* C5: a Read that follows Create at once writes the state that Create wrote
C5_CreateReadRoundTrip ==
    (kind \in RelKinds /\ Succeeded("Read") /\ last.after = "Create") =>
        state = last.prior

\* C6: the id in state is the id that Create stored
C6_IdAssignedOnce == (state.id # 0 /\ createdId # 0) => state.id = createdId

\* C7: after a Read every relational attribute of the state is what the
\* remote entity holds
C7_ReadReflectsRemote ==
    Succeeded("Read") =>
        \A r \in RelsOf(kind) :
            IF r = "tasks" THEN state.rels[r] = Held(r)
            ELSE IF r = "workflows"
                 THEN \A w \in Workflows :
                        Cardinality({i \in 1..Len(state.rels[r]) : state.rels[r][i] = w})
                            = Cardinality({u \in Held(r) : u.wf = w})
                 ELSE Range(state.rels[r]) = NameSet(Held(r), Lst(r))
                      /\ Len(state.rels[r]) = Cardinality(Held(r))

\* C8: every relation list in the state of a role, group or user is in
\* ascending lexicographic order
C8_RelationListsSorted ==
    kind \in RelKinds => \A r \in RelsOf(kind) : IsSorted(state.rels[r])

\* an Update whose desired list and whose remote edges both came unsorted
C8_Witness ==
    /\ kind = "user" /\ Succeeded("Update") /\ ~edgeDesc
    /\ listing.groups = ListingB
    /\ last.desired.groups = <<KNOWLEDGE, EXPLORE>>
    /\ last.priorAssoc.groups = {1, 2}
    /\ state.rels.groups = <<EXPLORE, KNOWLEDGE>>

\* C9: the relation lists that Create, Update and a Read right after them
\* write are the configured desired lists
C9_AppliesAreDiffFree ==
    (kind \in RelKinds
        /\ (Succeeded("Create") \/ Succeeded("Update")
              \/ (Succeeded("Read") /\ last.after \in {"Create", "Update"}))) =>
        state.rels = last.desired

\* C10: the relation list Create writes holds the names it assigned, sorted,
\* with one assign call per desired element that matches a listed entity
C10_CreateListIsAssigned ==
    (kind \in RelKinds /\ Succeeded("Create")) =>
        \A r \in RelsOf(kind) :
            /\ state.rels[r] = SortStrings(AssignedNames(r))
            /\ CallCount("assign", r) =
                 Cardinality({i \in 1..Len(last.desired[r]) :
                                Resolves(ElementName(last.desired[r][i]), r)})

\* the listing key Create and Update look a desired element up by: Create
\* its trimmed quoted form, Update the element itself
LookupKey(n) == IF last.op = "Create" THEN ElementName(n) ELSE n

\* C11: in Create and Update of a group or user whose remote calls all
\* succeed, a desired name that matches no listed entity causes no error and
\* no assign call: the operation succeeds, every assign call is for the
\* entity a desired name resolves to, and the unmatched name is not in the
\* relation list written to state
C11_UnknownNamesAreSkipped ==
    (kind \in {"group", "user"} /\ last.op \in {"Create", "Update"}
        /\ last.failed = 0) =>
        /\ last.result = "ok"
        /\ \A r \in RelsOf(kind) :
            LET d == last.desired[r]
                known == {i \in 1..Len(d) : Resolves(LookupKey(d[i]), r)}
            IN /\ \A i \in (1..Len(d)) \ known : ~Contains(state.rels[r], d[i])
               /\ CallIds("assign", r) \subseteq
                     {Lst(r)[FirstMatch(Lst(r), LookupKey(d[i]))].id : i \in known}

\* a user Update that assigned the one desired group the listing has and
\* passed over the one it does not have
C11_Witness ==
    /\ kind = "user" /\ Succeeded("Update")
    /\ listing.groups = ListingB
    /\ last.desired.groups = <<SETTINGS, EXPLORE>>
    /\ last.priorAssoc.groups = {}
    /\ last.calls = <<Call("read", "", state.id), Call("list", "groups", 0),
                      Call("assign", "groups", 2)>>
    /\ state.rels.groups = <<EXPLORE>>

\* C12: Read is non-mutating: for every resource type and every prior state
\* it issues exactly one remote read call, for the id in state, and no other
\* call, and it leaves every remote entity as it was
C12_ReadIsNonMutating ==
    [][last'.op = "Read" =>
          /\ last'.calls = <<Call("read", "", state.id)>>
          /\ remote' = remote
          /\ nextId' = nextId]_vars

\* a group Read that found a role assigned remotely and wrote it to state
C12_Witness ==
    /\ kind = "group" /\ Succeeded("Read")
    /\ last.calls = <<Call("read", "", 1)>>
    /\ Held("roles") = {2}
    /\ last.prior.rels.roles = <<>>
    /\ state.rels.roles # <<>>

\* C13: Delete issues one remote delete call, keyed by the id in state, and
\* no other call; when that call fails, as it does when no entity has that
\* id, Delete reports an error; either way every remote entity other than
\* the one with that id stays as it was
C13_DeleteTouchesOneEntity ==
    [][last'.op = "Delete" =>
          /\ last'.calls = <<Call("delete", "", state.id)>>
          /\ ~Exists(state.id) => last'.failed = 1
          /\ last'.failed # 0 => (last'.result = "error" /\ remote' = remote)
          /\ Len(remote') = Len(remote)
          /\ \A i \in 1..Len(remote) : i # state.id => remote'[i] = remote[i]
          /\ nextId' = nextId]_vars

\* a group Delete that removed the second group and left the first, which
\* a failed Create had left behind with a role assigned
C13_Witness ==
    /\ kind = "group" /\ Succeeded("Delete")
    /\ Len(remote) = 2
    /\ remote[2] = Tombstone(kind)
    /\ remote[1].name = "n1" /\ remote[1].rels.roles # {}
    /\ state = NullState(kind)

\* C14: ImportState stores the import key as the id and sets no other
\* attribute; after a successful Read that follows it at once, the id is
\* still that key and the name and every relational attribute of the state
\* are what the remote entity holds, the workflows of a status template
\* included
C14_ImportThenReadAdopts ==
    /\ last.op = "Import" =>
          (state.id # 0 /\ state = [NullState(kind) EXCEPT !.id = state.id])
    /\ (Succeeded("Read") /\ last.after = "Import") =>
          /\ state.id = last.calls[1].id
          /\ state.name = Remote(state.id).name
          /\ \A r \in RelsOf(kind) :
                IF r = "tasks" THEN state.rels[r] = Held(r)
                ELSE IF r = "workflows"
                     THEN {Usage(state.rels[r][i],
                                 Cardinality({j \in 1..i :
                                    state.rels[r][j] = state.rels[r][i]})) :
                             i \in 1..Len(state.rels[r])} = Held(r)
                     ELSE state.rels[r] = SortStrings(NamesOfEdges(
                                             EdgesOf(Held(r), Lst(r), FALSE)))

\* the configuration errors of Configure
ConfigErrors ==
    {"Unknown opencti URL", "Unknown opencti token",
     "Missing opencti URL", "Missing opencti token"}

\* C15: Configure fails with a configuration error, before the client is
\* constructed and before any remote call, whenever url or token is unknown
\* or empty after resolution; an unknown value is an error even when the
\* environment variable is set; the client is constructed only when both
\* resolved values are non-empty
C15_ConfigureRejectsMissing ==
    provider.done =>
        LET c == provider.config
            unknown == c.url.unknown \/ c.token.unknown
            url == IF c.url.null THEN provider.env.OPENCTI_URL ELSE c.url.value
            token == IF c.token.null THEN provider.env.OPENCTI_TOKEN
                     ELSE c.token.value
        IN /\ (unknown \/ url = "" \/ token = "") =>
                 /\ provider.diags # <<>>
                 /\ Range(provider.diags) \subseteq ConfigErrors
                 /\ ~provider.constructed /\ ~provider.client
                 /\ provider.calls = <<>>
           /\ provider.constructed =>
                 (~unknown /\ url # "" /\ token # ""
                    /\ provider.url = url /\ provider.token = token)

\* an unknown url with OPENCTI_URL set: an error and no client
C15_Witness ==
    /\ provider.done
    /\ provider.config.url.unknown /\ provider.env.OPENCTI_URL = "env"
    /\ provider.config.token.value = "cfg"
    /\ provider.diags = <<"Unknown opencti URL">>
    /\ ~provider.constructed

\* C16: with known values, url and token each resolve to the configured
\* value when the configuration has one and to OPENCTI_URL or OPENCTI_TOKEN
\* only when it has none; a configured empty string overrides a non-empty
\* environment variable and gives the missing-value error
C16_ConfigOverridesEnvironment ==
    (provider.done /\ ~provider.config.url.unknown
        /\ ~provider.config.token.unknown) =>
        LET c == provider.config
            e == provider.env
        IN /\ provider.url = (IF c.url.null THEN e.OPENCTI_URL ELSE c.url.value)
           /\ provider.token =
                 (IF c.token.null THEN e.OPENCTI_TOKEN ELSE c.token.value)
           /\ (~c.url.null /\ c.url.value = "") =>
                 (Contains(provider.diags, "Missing opencti URL")
                    /\ ~provider.constructed)
           /\ (~c.token.null /\ c.token.value = "") =>
                 (Contains(provider.diags, "Missing opencti token")
                    /\ ~provider.constructed)

\* a configured empty url with OPENCTI_URL set: the url resolves to the
\* empty string and is reported missing
C16_Witness ==
    /\ provider.done
    /\ provider.config.url = [unknown |-> FALSE, null |-> FALSE, value |-> ""]
    /\ provider.env.OPENCTI_URL = "env"
    /\ provider.config.token.null /\ provider.env.OPENCTI_TOKEN = "env"
    /\ provider.url = "" /\ provider.token = "env"
    /\ provider.diags = <<"Missing opencti URL">>

\* the calls of the last operation that returned no error before one did
CallsBeforeFailure == SubSeq(last.calls, 1, last.failed - 1)

\* C17: an Update of a role, group or user in which a remote call (read,
\* listing, lookup, unassign or assign) fails ends with that call: it issues
\* no further call and repeats none, reports an error, writes no state, and
\* leaves the remote relations as the calls that succeeded made them
C17_UpdateAbortsAtFailure ==
    (kind \in RelKinds /\ last.op = "Update" /\ last.failed # 0) =>
        /\ last.result = "error"
        /\ Len(last.calls) = last.failed
        /\ state = last.prior
        /\ \A r \in RelsOf(kind) :
              Held(r) = ApplyCalls(last.priorAssoc[r], CallsBeforeFailure, r)

\* a user Update that unassigned KNOWLEDGE and then failed to assign
\* EXPLORE: KNOWLEDGE stays unassigned and stays in state
C17_Witness ==
    /\ kind = "user" /\ last.op = "Update" /\ last.result = "error"
    /\ last.failed = 4
    /\ last.calls = <<Call("read", "", 1), Call("unassign", "groups", 2),
                      Call("list", "groups", 0), Call("assign", "groups", 1)>>
    /\ last.priorAssoc.groups = {2}
    /\ Held("groups") = {}
    /\ state.rels.groups = <<KNOWLEDGE>>

\* the id of the entity the last operation created, 0 when its creation
\* call failed or it made none
MadeId ==
    LET made == {i \in 1..Len(CallsBeforeFailure) : last.calls[i].call = "create"}
    IN IF made = {} THEN 0 ELSE last.calls[CHOOSE i \in made : TRUE].id

\* C18: a Create of a role, group, user or status template whose creation
\* call succeeded and in which a later call fails is not rolled back: it
\* issues no delete call and no call after the failed one, reports an
\* error and writes no state; the created entity remains with the relations
\* assigned so far, and its id is not in state
C18_CreateIsNotRolledBack ==
    (kind \in RelKinds \cup {"status_template"} /\ last.op = "Create"
        /\ last.failed # 0 /\ MadeId # 0) =>
        /\ last.result = "error"
        /\ Len(last.calls) = last.failed
        /\ \A i \in 1..Len(last.calls) : last.calls[i].call # "delete"
        /\ state = last.prior /\ state.id = 0
        /\ Exists(MadeId)
        /\ \A r \in RelsOf(kind) :
              Remote(MadeId).rels[r] = ApplyCalls({}, CallsBeforeFailure, r)

\* a group Create that assigned a role and then failed to list the
\* markings: the group exists with the role, and state has no group
C18_Witness ==
    /\ kind = "group" /\ last.op = "Create" /\ last.result = "error"
    /\ last.failed = 4
    /\ last.calls[3].call = "assign" /\ last.calls[4].rel = "allowed_marking"
    /\ Exists(1) /\ remote[1].rels.roles = {last.calls[3].id}
    /\ state = NullState(kind)

\* C19: a role Update whose remote calls all succeed ends without error;
\* its assign calls are one per desired capability name that is not yet
\* assigned and resolves, each with the id that name resolves to; a desired
\* name that resolves to no id is not in the list written to state; so it
\* is whether the lookup returns the ids in the order of the names or not,
\* and as many as names or fewer
C19_RoleUpdateResolvesByName ==
    (kind = "role" /\ last.op = "Update" /\ last.failed = 0) =>
        LET plan == last.desired.capabilities
            lst == Lst("capabilities")
            held == NameSet(last.priorAssoc.capabilities, lst)
            add == {lst[FirstMatch(lst, n)].id :
                      n \in {m \in Range(plan) :
                               m \notin held /\ Resolves(m, "capabilities")}}
        IN /\ last.result = "ok"
           /\ CallIds("assign", "capabilities") = add
           /\ CallCount("assign", "capabilities") = Cardinality(add)
           /\ \A n \in Range(plan) :
                 ~Resolves(n, "capabilities") =>
                    ~Contains(state.rels.capabilities, n)

\* the resource types whose Update is a second creation call
RecreatedKinds == {"marking_definition", "vocabulary", "task_template"}

\* C20: a successful Update of a marking definition, vocabulary or task
\* template issues one remote creation call and no other call, and stores
\* the new id, not the prior one, in state; the entity with the prior id
\* stays; so after k successful Updates that follow a Create the provider
\* has produced k + 1 remote entities for the resource and state holds the
\* id of the last
C20_UpdateRecreates ==
    kind \in RecreatedKinds =>
        /\ Succeeded("Update") =>
              /\ last.calls = <<Call("create", "", state.id)>>
              /\ state.id # last.prior.id
              /\ createdId # 0 => Exists(last.prior.id)
        /\ (createdId # 0 /\ state.id # 0) =>
              /\ Cardinality({i \in createdId..Len(remote) : Exists(i)})
                    = updates + 1
              /\ state.id = Len(remote)

\* a vocabulary after Create and two Updates: three entities, the third
\* in state
C20_Witness ==
    /\ kind = "vocabulary" /\ Succeeded("Update")
    /\ createdId = 1 /\ updates = 2
    /\ Exists(1) /\ Exists(2) /\ Exists(3)
    /\ state.id = 3

\* the resource types whose Update handler has an empty body
Templates == {"case_template", "status_template"}

\* the modelled attributes of a resource type whose schema carries the
\* RequiresReplace plan modifier
ReplaceAttrs(k) ==
    CASE k = "case_template" -> {"name", "tasks"}
      [] k = "status_template" -> {"workflows"}
      [] OTHER -> {}

\* the configured attributes in which a plan differs from the state
Changed(st, plan) ==
    (IF plan.name # st.name THEN {"name"} ELSE {})
    \cup {r \in DOMAIN plan.rels : plan.rels[r] # st.rels[r]}

\* what the orchestrator does with a plan for a resource in state: nothing
\* without a change, Delete and then Create when a changed attribute requires
\* replacement, else the Update handler
PlannedAction(k, st, plan) ==
    IF Changed(st, plan) = {} THEN "none"
    ELSE IF Changed(st, plan) \cap ReplaceAttrs(k) # {} THEN "replace"
    ELSE "update"

\* C21: for a case template or status template in state, every plan that
\* changes a configured attribute is carried out as a replacement, none by a
\* call of the Update handler, which would leave the remote entity and the
\* state as they were
C21_TemplateChangeReplaces ==
    (kind \in Templates /\ state.id # 0) =>
        \A plan \in Plans(kind) :
            Changed(state, plan) # {} =>
                PlannedAction(kind, state, plan) = "replace"

\* C22: last_updated is written with the reading of the clock by every
\* Create and every Update that completes without error, of every resource
\* type; Read and ImportState leave it as it was, and Delete writes no
\* value (the state, and last_updated with it, is gone when Delete succeeded)
C22_LastUpdatedIsFresh ==
    [][now' = now =>
          /\ (last'.op \in {"Create", "Update"} /\ last'.result = "ok") =>
                lastUpdated' = now
          /\ last'.op \in {"Read", "Import"} => lastUpdated' = lastUpdated
          /\ last'.op = "Delete" =>
                lastUpdated' = (IF state'.id = 0 THEN 0 ELSE lastUpdated)]_vars

\* C23: the client field of a resource instance is written only by the
\* Configure of that instance: set when the provider data is the client
\* handle the provider published, left unset with an error when the data is
\* of another type, left unset without error when the data is nil; no
\* Create, Read, Update, Delete or ImportState writes the client field of
\* any instance or the provider, and the provider is not written after its
\* Configure
C23_ClientWrittenOnlyByConfigure ==
    [][/\ \A i \in Instances :
            resources'[i] # resources[i] =>
                /\ ~resources[i].configured /\ resources'[i].configured
                /\ \A j \in Instances \ {i} : resources'[j] = resources[j]
                /\ resources'[i].client = (resources'[i].data = "client")
                /\ resources'[i].data = "client" => provider.client
                /\ (resources'[i].diags # <<>>) = (resources'[i].data = "other")
                /\ UNCHANGED <<state, remote, nextId, last, lastUpdated, provider>>
       /\ (last' # last \/ state' # state \/ remote' # remote) =>
            (resources' = resources /\ provider' = provider)
       /\ provider.done => provider' = provider]_vars

\* one instance holds the client and created a role with it; the other was
\* handed data of another type and holds none
C23_Witness ==
    /\ resources["r1"].client /\ resources["r1"].data = "client"
    /\ resources["r2"].data = "other" /\ ~resources["r2"].client
    /\ resources["r2"].diags = <<"Unexpected Resource Configure Type">>
    /\ provider.client
    /\ Succeeded("Create") /\ state.id # 0

\* the remote calls of group and user Update: none of them changes a scalar
RelationCalls == {"read", "list", "assign", "unassign"}

\* C24: a group or user Update that completes issues no remote call that
\* changes a scalar and leaves the name of the remote entity as it was, and
\* writes the planned name to state; so a planned name that differs from the
\* remote one is in state after the Update, and the next Read writes the
\* remote name back to state
C24_UpdateLeavesRemoteScalars ==
    [][(kind \in {"group", "user"} /\ now' = now /\ last'.result = "ok") =>
          /\ last'.op = "Update" =>
                /\ \A i \in 1..Len(last'.calls) : last'.calls[i].call \in RelationCalls
                /\ state'.id = state.id
                /\ Len(remote') = Len(remote)
                /\ \A i \in 1..Len(remote) : remote'[i].name = remote[i].name
                /\ state'.name = last'.name
          /\ last'.op = "Read" =>
                (state'.name = remote[state.id].name /\ remote' = remote)]_vars

\* a group created as n1 whose Update planned the name n2: state says n2,
\* the remote group is still n1
C24_Witness ==
    /\ kind = "group" /\ Succeeded("Update")
    /\ last.name = "n2" /\ state.name = "n2"
    /\ Remote(state.id).name = "n1"

\* C25: a user Create that completes (a step other than the clock's) issues a
\* creation call exactly when no listed user has the planned name; otherwise
\* it adopts a listed user of that name: it stores that user's id and email
\* in state, not the planned email, assigns the desired groups that resolve
\* to it, and unassigns none of the groups it has
C25_UserCreateAdopts ==
    [][(kind = "user" /\ now' = now /\ last'.op = "Create"
          /\ last'.result = "ok") =>
          LET named == {i \in 1..Len(remote) : remote[i].name = last'.name}
              creates == {i \in 1..Len(last'.calls) : last'.calls[i].call = "create"}
              assigned == {last'.calls[i].id :
                             i \in {j \in 1..Len(last'.calls) :
                                      last'.calls[j].call = "assign"}}
              wanted == {Lst("groups")[FirstMatch(Lst("groups"), n)].id :
                           n \in {m \in Range(last'.desired.groups) :
                                    Resolves(m, "groups")}}
          IN /\ (creates # {}) = (named = {})
             /\ assigned = wanted
             /\ named # {} =>
                   /\ state'.id \in named
                   /\ state'.email = remote[state'.id].email
                   /\ Len(remote') = Len(remote)
                   /\ \A i \in 1..Len(last'.calls) : last'.calls[i].call # "unassign"
                   /\ remote'[state'.id].rels.groups =
                         remote[state'.id].rels.groups \cup assigned
                   /\ remote'[state'.id].email = remote[state'.id].email]_vars

\* the existing user n1, member of group 1, adopted by a Create that
\* planned group KNOWLEDGE: no creation call, the existing email in state,
\* groups 1 and 2 held
C25_Witness ==
    /\ kind = "user" /\ Succeeded("Create")
    /\ last.name = "n1" /\ last.desired.groups = <<KNOWLEDGE>>
    /\ listing.groups = ListingA
    /\ \A i \in 1..Len(last.calls) : last.calls[i].call # "create"
    /\ state.id = 1 /\ state.email = ExistingEmail
    /\ last.priorAssoc.groups = {1}
    /\ Held("groups") = {1, 2}
    /\ Len(remote) = 1

\* C26: two user Creates that plan the same name and run side by side never
\* both issue the creation call, and once both have written their state they
\* track the same remote id
C26_OneUserPerName ==
    \A p \in DOMAIN procs : \A q \in DOMAIN procs :
        (p # q /\ procs[p].name = procs[q].name) =>
            /\ ~(procs[p].made /\ procs[q].made)
            /\ (procs[p].pc = "done" /\ procs[q].pc = "done") =>
                  procs[p].state.id = procs[q].state.id

\* C27: the calls of an Update, whether or not one of them failed, come in
\* this order: the unassign calls of a relation before its listing call and
\* its assign calls; in a group Update the calls about roles before the calls
\* about markings, and a failure of a call about roles leaves the markings
\* the group holds as they were; in a role Update the lookup of the
\* capability ids before every unassign and assign call, and a failed lookup
\* leaves the capabilities the role holds as they were
C27_UpdateCallOrder ==
    (kind \in {"role", "group", "user"} /\ last.op = "Update") =>
        LET c == last.calls
            n == Len(c)
        IN /\ \A i \in 1..n : \A j \in 1..n :
                 (c[i].call = "unassign" /\ c[j].call \in {"list", "assign"}
                    /\ c[i].rel = c[j].rel) => i < j
           /\ kind = "group" =>
                 /\ \A i \in 1..n : \A j \in 1..n :
                       (c[i].rel = "roles" /\ c[j].rel = "allowed_marking") => i < j
                 /\ (last.failed # 0 /\ c[last.failed].rel = "roles") =>
                       Remote(state.id).rels.allowed_marking =
                           last.priorAssoc.allowed_marking
           /\ kind = "role" =>
                 /\ \A i \in 1..n :
                       c[i].call \in {"unassign", "assign"} =>
                           \E j \in 1..(i - 1) : c[j].call = "lookup"
                 /\ (last.failed # 0 /\ c[last.failed].call = "lookup") =>
                       Remote(state.id).rels.capabilities =
                           last.priorAssoc.capabilities

\* a group Update that changes the role from EXPLORE to KNOWLEDGE and plans
\* the marking KNOWLEDGE: the role is unassigned, the roles are listed, the
\* assign call fails, and the group holds no marking, as before
C27_Witness ==
    /\ kind = "group" /\ last.op = "Update" /\ last.result = "error"
    /\ last.failed = 4
    /\ last.calls[2] = Call("unassign", "roles", 1)
    /\ last.calls[3] = Call("list", "roles", 0)
    /\ last.calls[4] = Call("assign", "roles", 2)
    /\ last.desired.allowed_marking = <<KNOWLEDGE>>
    /\ last.priorAssoc.allowed_marking = {}
    /\ Remote(state.id).rels.allowed_marking = {}

\* C28: after a successful Create, Read or Update of a role, group or user
\* no name occurs twice in a relation list of the state, and a Create or
\* Update issued at most one assign call per related entity
C28_NoDuplicates ==
    (kind \in {"role", "group", "user"} /\ last.op \in {"Create", "Read", "Update"}
       /\ last.result = "ok") =>
        /\ \A r \in RelsOf(kind) :
              \A i \in 1..Len(state.rels[r]) : \A j \in 1..Len(state.rels[r]) :
                  state.rels[r][i] = state.rels[r][j] => i = j
        /\ \A i \in 1..Len(last.calls) : \A j \in 1..Len(last.calls) :
              (last.calls[i].call = "assign" /\ last.calls[i] = last.calls[j]) => i = j

\* C29: a successful status template Read writes the id of the prior state
\* and the name and color of the remote entity; the workflows of the prior
\* state stay as they were when their number equals the remote usages
\* count, whatever they name, and are replaced by the empty list otherwise,
\* also when the remote entity has usages
C29_StatusReadComparesCounts ==
    (kind = "status_template" /\ Succeeded("Read")) =>
        LET prior == last.prior
            usages == Cardinality(last.priorAssoc.workflows)
        IN /\ state.id = prior.id
           /\ state.name = Remote(state.id).name
           /\ state.color = Remote(state.id).color
           /\ state.rels.workflows =
                 IF Len(prior.rels.workflows) = usages
                 THEN prior.rels.workflows ELSE <<>>

\* a status template whose state names the Report workflow while the one
\* remote usage is in the Case-Incident workflow: the Read keeps the state's
\* workflow
C29_Witness ==
    LET report == [entity |-> "Report", order |-> 2]
        incident == [entity |-> "Case-Incident", order |-> 1]
    IN /\ kind = "status_template" /\ Succeeded("Read")
       /\ last.prior.rels.workflows = <<report>>
       /\ last.priorAssoc.workflows = {Usage(incident, 1)}
       /\ state.rels.workflows = <<report>>
       /\ state.color = PlannedColor

\* C30: for every desired name and every remote listing, Create and Update
\* assign the same remote entity, or both assign none; names with a double
\* quote or a backslash included
C30_CreateMatchesAsUpdate ==
    (probe # <<>> /\ probe.created /\ probe.updated) =>
        probe.create = probe.update

====
